---- MODULE Spec2Model ----
(***************************************************************************)
(* Model of jira-pr-check-python (src/main.py): the HTTP cloud function    *)
(* jira_github_pr_check and the helpers it calls.                          *)
(*                                                                         *)
(* Python strings are TLA+ strings, except branch names and issue keys,    *)
(* which are sequences of one-character strings so that the regular        *)
(* expression can be run over them; Str turns such a sequence into the     *)
(* string an f-string embeds.  A value that may be None is a sequence of   *)
(* length 0 (None) or 1 (the value).                                       *)
(***************************************************************************)
EXTENDS Integers, Sequences, FiniteSets, TLC

VARIABLES
    config,                \* get_config(): the environment of the process
    request,               \* the inbound flask request
    jira,                  \* what the tracker answers to a lookup
    github_up,             \* whether the repository host accepts a status
    pc,                    \* position of the handler
    send_http_code,
    result,
    github_commit_status,
    payload_type,
    branch_name,
    issue_id,
    auth,                  \* value returned by check_payload_secret
    jira_calls,            \* number of calls of is_jira_issue
    push_calls,            \* number of calls of push_github_commit_status
    pushed,                \* statuses created on the repository host
    log_level,             \* level of the module's logger "log"
    peer,                  \* the frame of a second invocation, None if none
    active                 \* the invocation whose frame the variables hold

vars == <<config, request, jira, github_up, pc, send_http_code, result,
          github_commit_status, payload_type, branch_name, issue_id, auth,
          jira_calls, push_calls, pushed, log_level, peer, active>>

None == <<>>
Some(v) == <<v>>

RECURSIVE Str(_)
Str(chars) == IF chars = <<>> THEN "" ELSE Head(chars) \o Str(Tail(chars))

(***************************************************************************)
(* check_payload_secret                                                    *)
(***************************************************************************)

\* hmac.new(key, msg, sha256).hexdigest(): a keyed digest, taken to be free
\* of collisions: distinct (key, msg) pairs give distinct digests.
HmacSha256Hex(key, msg) == "hmac[" \o key \o "][" \o msg \o "]"

check_payload_secret_any_prefix(req, cfg) ==
    LET github_hash == req.headers
        github_webhook_secret == cfg.github_webhook_secret
    IN  IF github_webhook_secret = None
        THEN TRUE
        ELSE \E prefix \in {"sha256=", ""} :
                Some(prefix \o HmacSha256Hex(github_webhook_secret[1], req.data)) = github_hash

check_payload_secret_header_first(req, cfg) ==
    LET github_hash == req.headers
        github_webhook_secret == cfg.github_webhook_secret
    IN  IF github_hash = None
        THEN FALSE
        ELSE IF github_webhook_secret = None
             THEN TRUE
             ELSE Some("sha256=" \o HmacSha256Hex(github_webhook_secret[1], req.data)) = github_hash

check_payload_secret(req, cfg) ==
    LET github_hash == req.headers
        result0 == None
        result1 == IF github_hash = None THEN Some(FALSE) ELSE result0
        github_webhook_secret == cfg.github_webhook_secret
        result2 == IF github_webhook_secret = None
                   THEN Some(TRUE)
                   ELSE LET signature == HmacSha256Hex(github_webhook_secret[1], req.data)
                        IN  Some(Some("sha256=" \o signature) = github_hash)
    IN  result2[1]

(***************************************************************************)
(* get_payload_type                                                        *)
(***************************************************************************)

get_payload_type(payload) ==
    IF "pull_request" \in payload.keys THEN Some("pull_request")
    ELSE IF "pusher" \in payload.keys THEN Some("push")
    ELSE None

(***************************************************************************)
(* get_jira_issue_from_branch_name                                         *)
(*   regex.findall(r"(?<= |-|_|^)([0-9A-Z][A-Za-z]{1,10}-[0-9]+)           *)
(*                     (?= |-|_|$)", branch_name)                          *)
(***************************************************************************)

Upper == {"A", "B", "C", "D", "E", "F", "G", "H", "I", "J", "K", "L", "M",
          "N", "O", "P", "Q", "R", "S", "T", "U", "V", "W", "X", "Y", "Z"}
Lower == {"a", "b", "c", "d", "e", "f", "g", "h", "i", "j", "k", "l", "m",
          "n", "o", "p", "q", "r", "s", "t", "u", "v", "w", "x", "y", "z"}
Digit == {"0", "1", "2", "3", "4", "5", "6", "7", "8", "9"}

\* the bounds of [A-Za-z]{1,10}
KeyLettersMin == 1
KeyLettersMax == 10

Max(S) == CHOOSE x \in S : \A y \in S : y <= x

\* the alternatives " ", "-", "_" of both lookarounds
Delimiter_with_slash == {" ", "-", "_", "/"}

Delimiter == {" ", "-", "_"}

\* (?<= |-|_|^) at index i: ^ is the start of the string (no MULTILINE)
LookBehind(s, i) == i = 1 \/ s[i - 1] \in Delimiter

\* (?= |-|_|$) with j the index after the match: $ is the end of the string
\* or the position before a newline that ends the string
LookAhead(s, j) ==
    \/ j = Len(s) + 1
    \/ j <= Len(s) /\ s[j] \in Delimiter
    \/ j = Len(s) /\ s[j] = "\n"

\* [0-9A-Z]
KeyFirstChar == Digit \cup Upper

\* [A-Za-z]
KeyLetter == Upper \cup Lower

\* [0-9]+(?= |-|_|$) from index p, greedy with backtracking: the last index
\* of the longest run of digits after which the lookahead holds, 0 if none
DigitsEnd(s, p) ==
    LET ms == {m \in 1..(Len(s) - p + 1) :
                  /\ \A t \in 0..(m - 1) : s[p + t] \in Digit
                  /\ LookAhead(s, p + m)}
    IN  IF ms = {} THEN 0 ELSE p + Max(ms) - 1

\* the whole pattern tried at index i: the last index of the match, 0 if
\* the pattern does not match there
MatchEnd(s, i) ==
    LET ks == {k \in KeyLettersMin..KeyLettersMax :
                  /\ i + k + 1 <= Len(s)
                  /\ \A t \in 1..k : s[i + t] \in KeyLetter
                  /\ s[i + k + 1] = "-"
                  /\ DigitsEnd(s, i + k + 2) # 0}
    IN  IF LookBehind(s, i) /\ s[i] \in KeyFirstChar /\ ks # {}
        THEN DigitsEnd(s, i + Max(ks) + 2)
        ELSE 0

\* regex.findall: the non-overlapping matches, scanning from the left
FindAll(s, pos) ==
    LET from[p \in 1..(Len(s) + 1)] ==
            IF p > Len(s) THEN <<>>
            ELSE LET e == MatchEnd(s, p)
                 IN  IF e # 0
                     THEN <<SubSeq(s, p, e)>> \o from[e + 1]
                     ELSE from[p + 1]
    IN  from[pos]

get_jira_issue_from_branch_name(name) ==
    LET match == FindAll(name, 1)
    IN  IF Len(match) > 0 THEN Some(match[1]) ELSE None

(***************************************************************************)
(* is_jira_issue                                                           *)
(***************************************************************************)

\* jira.issue(issue_id) returns when the issue is found and raises otherwise
JiraOutcomes == {"found", "not_found", "permission_denied", "network_failure"}

is_jira_issue_only_404(outcome) == outcome # "not_found"

is_jira_issue(outcome) ==
    LET raised == outcome # "found"
    IN  IF raised THEN FALSE ELSE TRUE

(***************************************************************************)
(* push_github_commit_status                                               *)
(***************************************************************************)

\* The error push_github_commit_status raises, None when it returns.
\* Github.get_repo needs a repository name and Repository.get_commit a sha:
\* with None for either, the call raises before any status is created.
\* Otherwise the calls succeed or raise as the repository host decides.
push_github_commit_status(commit_status, up) ==
    IF commit_status.repository_name = None
    THEN Some("get_repo: None is not a repository name")
    ELSE IF commit_status.commit_sha = None
    THEN Some("get_commit: None is not a sha")
    ELSE IF ~up
    THEN Some("GithubException: 401 Bad credentials")
    ELSE None

\* commit.create_status(state, target_url, description, context)
CreatedStatus(commit_status) ==
    [ repository  |-> commit_status.repository_name[1],
      sha         |-> commit_status.commit_sha[1],
      state       |-> commit_status.status,
      target_url  |-> commit_status.callback_url,
      description |-> commit_status.message,
      context     |-> "branch-name/jira" ]

(***************************************************************************)
(* The requests and the environment                                        *)
(***************************************************************************)

BranchSlashKey == <<"f", "e", "a", "t", "u", "r", "e", "/", "A", "B", "C", "-", "1", "2", "3", "-", "l", "o", "g", "i", "n">>
BranchHyphenKey == <<"f", "e", "a", "t", "u", "r", "e", "-", "A", "B", "C", "-", "1", "2", "3", "-", "l", "o", "g", "i", "n">>
BranchNoKey == <<"h", "o", "t", "f", "i", "x", "-", "m", "i", "s", "c", "-", "c", "l", "e", "a", "n", "u", "p">>
BranchLeadingKey == <<"A", "B", "C", "-", "9", "9", "9", "-", "f", "i", "x">>
BranchEmpty == <<>>

Branches == {BranchSlashKey, BranchHyphenKey, BranchNoKey, BranchLeadingKey, BranchEmpty}

\* A decoded webhook body.  json: request.get_json() returns it (otherwise
\* the call raises); keys: its top-level keys; has_ref, has_sha: whether
\* payload["pull_request"]["head"]["ref"], and ["sha"] and
\* ["repo"]["full_name"], can be looked up; ref, sha, full_name: what is there.
PullRequest(keys, ref) ==
    [ json |-> TRUE, keys |-> keys, has_ref |-> TRUE, ref |-> ref,
      has_sha |-> TRUE, sha |-> Some("6dcb09b"), full_name |-> Some("octo/repo") ]

NotPullRequest(keys) ==
    [ json |-> TRUE, keys |-> keys, has_ref |-> FALSE, ref |-> None,
      has_sha |-> FALSE, sha |-> None, full_name |-> None ]

Payloads ==
    {PullRequest({"pull_request"}, Some(b)) : b \in Branches}
    \cup {PullRequest({"pull_request", "pusher"}, Some(BranchHyphenKey)),
          PullRequest({"pull_request"}, None),
          [PullRequest({"pull_request"}, None) EXCEPT !.has_ref = FALSE],
          [PullRequest({"pull_request"}, Some(BranchHyphenKey)) EXCEPT
               !.has_sha = FALSE, !.sha = None, !.full_name = None],
          [PullRequest({"pull_request"}, Some(BranchHyphenKey)) EXCEPT !.sha = None],
          NotPullRequest({"pusher"}),
          NotPullRequest({}),
          [NotPullRequest({}) EXCEPT !.json = FALSE]}

\* raw bodies, webhook secrets and X-Hub-Signature-256 values
Bodies == {"body-1", "body-2"}
Secrets == {"s3cr3t", "0ther"}
Signatures ==
    {None} \cup {Some(prefix \o HmacSha256Hex(k, d)) :
                    prefix \in {"sha256=", ""}, k \in Secrets, d \in Bodies}

Requests ==
    [ headers : Signatures, data : Bodies, payload : Payloads ]

\* get_config()
Configs ==
    [ github_webhook_secret : {None, Some("s3cr3t")},
      github_token : {Some("gh-token")},
      callback_url : {Some("https://ci.example/cb")},
      log_level : {10, 20} ]

(***************************************************************************)
(* jira_github_pr_check                                                    *)
(***************************************************************************)

ResultOK == [text |-> "OK"]
ResultMessage(m) == [message |-> m]

InitialCommitStatus_pending(cfg) ==
    [ commit_sha      |-> None,
      repository_name |-> None,
      github_token    |-> cfg.github_token,
      message         |-> "failed to check if branch name has a jira issue (probably not)",
      callback_url    |-> cfg.callback_url,
      status          |-> "pending" ]

InitialCommitStatus(cfg) ==
    [ commit_sha      |-> None,
      repository_name |-> None,
      github_token    |-> cfg.github_token,
      message         |-> "failed to check if branch name has a jira issue (probably not)",
      callback_url    |-> cfg.callback_url,
      status          |-> "failure" ]

\* the level of a logger that was never set (logging.NOTSET)
LogLevelNotSet == 0

\* the state of an invocation as it is entered
HandlerStart ==
    /\ pc = "setup"
    /\ send_http_code = 200
    /\ result = ResultOK
    /\ github_commit_status = InitialCommitStatus(config)
    /\ payload_type = None
    /\ branch_name = None
    /\ issue_id = None
    /\ auth = None
    /\ jira_calls = 0
    /\ push_calls = 0
    /\ pushed = <<>>

Init ==
    /\ config \in Configs
    /\ request \in Requests
    /\ jira \in JiraOutcomes
    /\ github_up \in BOOLEAN
    /\ HandlerStart
    /\ log_level = LogLevelNotSet
    /\ peer = None
    /\ active = 1

\* the except clause that catches an exception of class exc
ExceptCode_one_client_error(exc) ==
    IF exc = "WebhookNotAuthorizedException" THEN 403 ELSE 400

ExceptCode(exc) ==
    IF exc = "WebhookNotAuthorizedException" THEN 403
    ELSE IF exc = "NotJiraIssueException" THEN 404
    ELSE 400

\* raise exc(message) inside the try block: the except clause stores the
\* message and the code, and control goes to the status push
Raise(exc, message) ==
    /\ github_commit_status' = [github_commit_status EXCEPT !.message = message]
    /\ result' = ResultMessage(message)
    /\ send_http_code' = ExceptCode(exc)
    /\ pc' = "report"

Env == <<config, request, jira, github_up, log_level, peer, active>>

MsgNotAuthorized == "webhook secret do not match"
MsgNotPullRequest == "this callback only manages PR webhook. Fix the webhook settings."
MsgNoBranch == "Github payload is not a proper JSON: github webhook must send a JSON payload in application/json MIME type. Review the webhook settings"
MsgNoKey(branch) ==
    "branch name " \o Str(branch) \o " does not fit the JIRA branch name requirements"
MsgNotFound_as_no_key(branch, issue) == MsgNoKey(branch)

MsgNotFound(branch, issue) ==
    "branch name " \o Str(branch) \o " does not reference a JIRA issue. Issue Id ("
        \o Str(issue) \o ") not found in JIRA."
MsgSuccess_without_key(branch, issue) ==
    "branch name (" \o Str(branch) \o ") references a found Jira issue"

MsgSuccess(branch, issue) ==
    "branch name (" \o Str(branch) \o ") references a found Jira issue (" \o Str(issue) \o ")"

\* the statements before the try block: the defaults of the response and of
\* the commit status, and log.setLevel(config["log_level"])
SetUp ==
    /\ pc = "setup"
    /\ send_http_code' = 200
    /\ result' = ResultOK
    /\ github_commit_status' = InitialCommitStatus(config)
    /\ log_level' = config.log_level
    /\ pc' = "check_secret"
    /\ UNCHANGED <<config, request, jira, github_up, peer, active, payload_type,
                   branch_name, issue_id, auth, jira_calls, push_calls, pushed>>

\* the check without its raise
CheckSecret_without_raise ==
    /\ pc = "check_secret"
    /\ auth' = Some(check_payload_secret(request, config))
    /\ pc' = "get_payload"
    /\ UNCHANGED <<github_commit_status, result, send_http_code>>
    /\ UNCHANGED <<Env, payload_type, branch_name, issue_id, jira_calls, push_calls, pushed>>

CheckSecret ==
    /\ pc = "check_secret"
    /\ LET ok == check_payload_secret(request, config)
       IN  /\ auth' = Some(ok)
           /\ IF ~ok
              THEN Raise("WebhookNotAuthorizedException", MsgNotAuthorized)
              ELSE /\ pc' = "get_payload"
                   /\ UNCHANGED <<github_commit_status, result, send_http_code>>
    /\ UNCHANGED <<Env, payload_type, branch_name, issue_id, jira_calls, push_calls, pushed>>

GetPayload ==
    /\ pc = "get_payload"
    /\ LET payload == request.payload
       IN  IF ~payload.json
           THEN /\ Raise("BadRequest", "400 Bad Request: Failed to decode JSON object")
                /\ UNCHANGED payload_type
           ELSE /\ payload_type' = get_payload_type(payload)
                /\ IF payload_type' # Some("pull_request")
                   THEN Raise("ValueError", MsgNotPullRequest)
                   ELSE /\ pc' = "get_branch"
                        /\ UNCHANGED <<github_commit_status, result, send_http_code>>
    /\ UNCHANGED <<Env, branch_name, issue_id, auth, jira_calls, push_calls, pushed>>

GetBranch ==
    /\ pc = "get_branch"
    /\ LET payload == request.payload
       IN  IF ~payload.has_ref
           THEN /\ Raise("KeyError", "'ref'")
                /\ UNCHANGED branch_name
           ELSE /\ branch_name' = payload.ref
                /\ IF branch_name' = None
                   THEN Raise("ValueError", MsgNoBranch)
                   ELSE IF ~payload.has_sha
                   THEN Raise("KeyError", "'sha'")
                   ELSE /\ github_commit_status' =
                              [github_commit_status EXCEPT
                                  !.commit_sha = payload.sha,
                                  !.repository_name = payload.full_name]
                        /\ pc' = "extract"
                        /\ UNCHANGED <<result, send_http_code>>
    /\ UNCHANGED <<Env, payload_type, issue_id, auth, jira_calls, push_calls, pushed>>

ExtractIssue ==
    /\ pc = "extract"
    /\ LET found == get_jira_issue_from_branch_name(branch_name[1])
       IN  /\ issue_id' = found
           /\ IF found = None
              THEN Raise("NotJiraIssueException", MsgNoKey(branch_name[1]))
              ELSE /\ pc' = "check_issue"
                   /\ UNCHANGED <<github_commit_status, result, send_http_code>>
    /\ UNCHANGED <<Env, payload_type, branch_name, auth, jira_calls, push_calls, pushed>>

CheckIssue ==
    /\ pc = "check_issue"
    /\ jira_calls' = jira_calls + 1
    /\ IF ~is_jira_issue(jira)
       THEN Raise("NotJiraIssueException", MsgNotFound(branch_name[1], issue_id[1]))
       ELSE /\ github_commit_status' =
                  [github_commit_status EXCEPT
                      !.message = MsgSuccess(branch_name[1], issue_id[1]),
                      !.status = "success"]
            /\ pc' = "report"
            /\ UNCHANGED <<result, send_http_code>>
    /\ UNCHANGED <<Env, payload_type, branch_name, issue_id, auth, push_calls, pushed>>

\* the except clause of the status push: the code it answers with
EscalatedCode_keep(code) == code

EscalatedCode(code) == 500

\* "Send github commit status if error not 403"
ShouldPush_always(code) == TRUE

ShouldPush(code) == code # 403

Report ==
    /\ pc = "report"
    /\ IF ShouldPush(send_http_code)
       THEN LET error == push_github_commit_status(github_commit_status, github_up)
            IN  /\ push_calls' = push_calls + 1
                /\ IF error = None
                   THEN /\ pushed' = Append(pushed, CreatedStatus(github_commit_status))
                        /\ UNCHANGED <<result, send_http_code>>
                   ELSE /\ result' = ResultMessage(error[1])
                        /\ send_http_code' = EscalatedCode(send_http_code)
                        /\ UNCHANGED pushed
       ELSE UNCHANGED <<push_calls, pushed, result, send_http_code>>
    /\ pc' = "done"
    /\ UNCHANGED <<Env, github_commit_status, payload_type, branch_name, issue_id,
                   auth, jira_calls>>

Next ==
    \/ SetUp
    \/ CheckSecret
    \/ GetPayload
    \/ GetBranch
    \/ ExtractIssue
    \/ CheckIssue
    \/ Report

Spec == Init /\ [][Next]_vars

\* One invocation run to its end.  The handler is sequential code whose
\* calls return, so an invocation that can take a step takes it.  The
\* signature is absent, right, or right without its "sha256=" prefix; every
\* payload and every tracker outcome is kept.
FairSignatures ==
    { None,
      Some("sha256=" \o HmacSha256Hex("s3cr3t", "body-1")),
      Some(HmacSha256Hex("s3cr3t", "body-1")) }

FairRequests == [ headers : FairSignatures, data : {"body-1"}, payload : Payloads ]

FairInit ==
    /\ config \in Configs
    /\ request \in FairRequests
    /\ jira \in JiraOutcomes
    /\ github_up \in BOOLEAN
    /\ HandlerStart
    /\ log_level = LogLevelNotSet
    /\ peer = None
    /\ active = 1

FairSpec == FairInit /\ [][Next]_vars /\ WF_vars(Next)

(***************************************************************************)
(* Two invocations in one process.  Each has its own request, its own      *)
(* answers from the tracker and the repository host, and its own frame of  *)
(* local variables; config and the logger "log" belong to the process.     *)
(* The variables hold the frame of the invocation that is running, peer    *)
(* holds the other one, and Swap hands the processor over between steps.   *)
(***************************************************************************)

Frame ==
    [ request |-> request, jira |-> jira, github_up |-> github_up, pc |-> pc,
      send_http_code |-> send_http_code, result |-> result,
      github_commit_status |-> github_commit_status,
      payload_type |-> payload_type, branch_name |-> branch_name,
      issue_id |-> issue_id, auth |-> auth, jira_calls |-> jira_calls,
      push_calls |-> push_calls, pushed |-> pushed ]

\* the frame of an invocation as it is entered
EntryFrame(req, outcome, up, cfg) ==
    [ request |-> req, jira |-> outcome, github_up |-> up, pc |-> "setup",
      send_http_code |-> 200, result |-> ResultOK,
      github_commit_status |-> InitialCommitStatus(cfg),
      payload_type |-> None, branch_name |-> None,
      issue_id |-> None, auth |-> None, jira_calls |-> 0,
      push_calls |-> 0, pushed |-> <<>> ]

\* a handler whose commit status is one dictionary of the module
Swap_shared_commit_status ==
    /\ peer # None
    /\ peer' = Some(Frame)
    /\ active' = 3 - active
    /\ request' = peer[1].request
    /\ jira' = peer[1].jira
    /\ github_up' = peer[1].github_up
    /\ pc' = peer[1].pc
    /\ send_http_code' = peer[1].send_http_code
    /\ result' = peer[1].result
    /\ payload_type' = peer[1].payload_type
    /\ branch_name' = peer[1].branch_name
    /\ issue_id' = peer[1].issue_id
    /\ auth' = peer[1].auth
    /\ jira_calls' = peer[1].jira_calls
    /\ push_calls' = peer[1].push_calls
    /\ pushed' = peer[1].pushed
    /\ UNCHANGED <<config, log_level, github_commit_status>>

Swap ==
    /\ peer # None
    /\ peer' = Some(Frame)
    /\ active' = 3 - active
    /\ request' = peer[1].request
    /\ jira' = peer[1].jira
    /\ github_up' = peer[1].github_up
    /\ pc' = peer[1].pc
    /\ send_http_code' = peer[1].send_http_code
    /\ result' = peer[1].result
    /\ github_commit_status' = peer[1].github_commit_status
    /\ payload_type' = peer[1].payload_type
    /\ branch_name' = peer[1].branch_name
    /\ issue_id' = peer[1].issue_id
    /\ auth' = peer[1].auth
    /\ jira_calls' = peer[1].jira_calls
    /\ push_calls' = peer[1].push_calls
    /\ pushed' = peer[1].pushed
    /\ UNCHANGED <<config, log_level>>

ConcHeaders == {None, Some("sha256=" \o HmacSha256Hex("s3cr3t", "body-1"))}

ConcPayloads ==
    { PullRequest({"pull_request"}, Some(BranchHyphenKey)),
      PullRequest({"pull_request"}, Some(BranchNoKey)),
      PullRequest({"pull_request"}, None),
      NotPullRequest({"pusher"}) }

ConcRequests == [ headers : ConcHeaders, data : {"body-1"}, payload : ConcPayloads ]

ConcJiraOutcomes == {"found", "network_failure"}

ConcInit ==
    /\ config \in Configs
    /\ request \in ConcRequests
    /\ jira \in ConcJiraOutcomes
    /\ github_up \in BOOLEAN
    /\ HandlerStart
    /\ log_level = LogLevelNotSet
    /\ peer \in {Some(EntryFrame(req, outcome, up, config)) :
                    req \in ConcRequests, outcome \in ConcJiraOutcomes, up \in BOOLEAN}
    /\ active = 1

ConcNext ==
    \/ Next
    \/ Swap

ConcSpec == ConcInit /\ [][ConcNext]_vars

(***************************************************************************)
(* The key extraction alone, over many branch names: the handler is        *)
(* started where a pull-request event with that branch name brings it,     *)
(* just before get_jira_issue_from_branch_name is called.                  *)
(***************************************************************************)

MaxLen == 5

Alphabet == {"A", "b", "1", "-", "_", " ", "/", "\n"}

ShortNames == UNION {[1..n -> Alphabet] : n \in 0..MaxLen}

WordLetters(n) == <<"A">> \o [i \in 1..n |-> "b"] \o <<"-", "1">>

Words ==
    { <<>>,
      <<"A", "b", "-", "1">>,
      <<"B", "c", "-", "2">>,
      <<"1", "b", "-", "3">>,
      <<"f", "i", "x">>,
      WordLetters(KeyLettersMax),
      WordLetters(KeyLettersMax + 1) }

Separators == {<<>>, <<"-">>, <<"_">>, <<" ">>, <<"/">>}

WordNames ==
    {w1 \o s1 \o w2 \o s2 \o w3 :
        w1 \in Words, s1 \in Separators, w2 \in Words, s2 \in Separators, w3 \in Words}

ExtractNames == ShortNames \cup WordNames

ExtractInit ==
    /\ config = [ github_webhook_secret |-> None,
                  github_token |-> Some("gh-token"),
                  callback_url |-> Some("https://ci.example/cb"),
                  log_level |-> 20 ]
    /\ \E name \in ExtractNames :
          /\ request = [ headers |-> None, data |-> "body-1",
                         payload |-> PullRequest({"pull_request"}, Some(name)) ]
          /\ branch_name = Some(name)
    /\ jira = "found"
    /\ github_up = TRUE
    /\ pc = "extract"
    /\ send_http_code = 200
    /\ result = ResultOK
    /\ github_commit_status =
          [InitialCommitStatus(config) EXCEPT
              !.commit_sha = request.payload.sha,
              !.repository_name = request.payload.full_name]
    /\ payload_type = Some("pull_request")
    /\ issue_id = None
    /\ auth = Some(TRUE)
    /\ jira_calls = 0
    /\ push_calls = 0
    /\ pushed = <<>>
    /\ log_level = config.log_level
    /\ peer = None
    /\ active = 1

ExtractNext == ExtractIssue

ExtractSpec == ExtractInit /\ [][ExtractNext]_vars

(***************************************************************************)
(* Properties                                                              *)
(***************************************************************************)

Done == pc = "done"

\* the decoded body is a pull-request event with head ref b, a sha and a
\* repository name
IsPullRequestOn(b) ==
    /\ request.payload.json
    /\ "pull_request" \in request.payload.keys
    /\ request.payload.has_ref /\ request.payload.ref = Some(b)
    /\ request.payload.has_sha
    /\ request.payload.sha # None /\ request.payload.full_name # None

\* the header a sender that holds the secret computes for the raw body
SignedHeader(secret, body) == "sha256=" \o HmacSha256Hex(secret, body)

\* the statuses created on the repository host are exactly one, with this
\* state and description
PushedExactly(state, description) ==
    /\ Len(pushed) = 1
    /\ pushed[1].state = state
    /\ pushed[1].description = description

\* C1: the Status Reporter is invoked at most once per request, and never
\* when the request failed signature verification.
C1_PushAtMostOnce ==
    /\ push_calls <= 1
    /\ Len(pushed) <= push_calls
    /\ auth = Some(FALSE) => push_calls = 0

C1_Witness ==
    Done /\ auth = Some(FALSE) /\ send_http_code = 403 /\ push_calls = 0

\* C2: with a secret configured, a request whose signature header is missing
\* or differs from "sha256=" + HMAC-SHA256(secret, body) is rejected
\* (check_payload_secret returns false, the response code is 403), and the
\* same body with the correctly computed header is accepted.
C2_SignatureEnforced ==
    (auth # None /\ config.github_webhook_secret # None) =>
        LET expected == SignedHeader(config.github_webhook_secret[1], request.data)
        IN  IF request.headers = Some(expected)
            THEN auth = Some(TRUE) /\ send_http_code # 403
            ELSE auth = Some(FALSE) /\ send_http_code = 403

C2_Witness ==
    /\ Done
    /\ config.github_webhook_secret = Some("s3cr3t")
    /\ request.data = "body-1"
    /\ request.headers = Some("hmac[s3cr3t][body-1]")
    /\ send_http_code = 403

\* C3: with no secret configured, check_payload_secret accepts every
\* request, whether the signature header is present, absent or of any value.
C3_NoSecretAccepts ==
    (auth # None /\ config.github_webhook_secret = None) => auth = Some(TRUE)

C3_Witness ==
    /\ config.github_webhook_secret = None
    /\ request.headers = None
    /\ auth = Some(TRUE)
    /\ pc = "get_payload"

\* C4 as stated: a pull-request event on branch feature/ABC-123-login, no
\* secret, the tracker confirming the issue (and the repository host
\* accepting the status) is answered 200 "OK" with a success status pushed.
C4_ScenarioA_AsStated ==
    ( /\ Done
      /\ IsPullRequestOn(BranchSlashKey)
      /\ config.github_webhook_secret = None
      /\ jira = "found"
      /\ github_up )
    => /\ send_http_code = 200
       /\ result = ResultOK
       /\ Len(pushed) = 1 /\ pushed[1].state = "success"

\* C4 amended: with no secret, the tracker confirming the issue and the
\* status push succeeding, branch feature-ABC-123-login (the key between
\* hyphens) is answered 200 "OK" with a success status pushed, while branch
\* feature/ABC-123-login, where "/" precedes the key, yields no key and is
\* answered 404 with a failure status pushed.
C4_ScenarioA_Amended ==
    ( /\ Done
      /\ config.github_webhook_secret = None
      /\ jira = "found"
      /\ github_up )
    => /\ IsPullRequestOn(BranchHyphenKey) =>
            /\ send_http_code = 200
            /\ result = ResultOK
            /\ PushedExactly("success",
                   "branch name (feature-ABC-123-login) references a found Jira issue (ABC-123)")
       /\ IsPullRequestOn(BranchSlashKey) =>
            /\ send_http_code = 404
            /\ result = ResultMessage(
                   "branch name feature/ABC-123-login does not fit the JIRA branch name requirements")
            /\ PushedExactly("failure",
                   "branch name feature/ABC-123-login does not fit the JIRA branch name requirements")

C4_Witness ==
    /\ Done
    /\ IsPullRequestOn(BranchHyphenKey)
    /\ config.github_webhook_secret = None
    /\ jira = "found"
    /\ send_http_code = 200
    /\ Len(pushed) = 1

\* the pattern [A-Z][A-Za-z]{1,10}-[0-9]+ as a predicate on a whole word
IsKeyShaped(w) ==
    \E k \in 1..10 :
        /\ Len(w) >= k + 3
        /\ w[1] \in Upper
        /\ \A t \in 2..(k + 1) : w[t] \in Upper \cup Lower
        /\ w[k + 2] = "-"
        /\ \A t \in (k + 3)..Len(w) : w[t] \in Digit

\* the spans <<i, j>> of s that hold a key preceded by a space, hyphen,
\* underscore or the string start and followed by one of them or the end
DelimitedKeys(s) ==
    {ij \in (1..Len(s)) \X (1..Len(s)) :
        /\ ij[1] <= ij[2]
        /\ IsKeyShaped(SubSeq(s, ij[1], ij[2]))
        /\ (ij[1] = 1 \/ s[ij[1] - 1] \in {" ", "-", "_"})
        /\ (ij[2] = Len(s) \/ s[ij[2] + 1] \in {" ", "-", "_"})}

\* C5: get_jira_issue_from_branch_name returns a key if and only if the name
\* contains a delimited substring matching [A-Z][A-Za-z]{1,10}-[0-9]+; what
\* it returns is such a substring, and it returns none for any other name.
C5_ExtractsDelimitedKey ==
    pc # "extract" =>
        LET s == branch_name[1]
        IN  /\ issue_id # None <=> DelimitedKeys(s) # {}
            /\ issue_id # None =>
                  \E ij \in DelimitedKeys(s) : issue_id[1] = SubSeq(s, ij[1], ij[2])

\* C6: for a branch name that holds several delimited issue keys, the
\* extractor returns the leftmost one.
C6_LeftmostKey ==
    pc # "extract" =>
        LET s == branch_name[1]
            keys == DelimitedKeys(s)
        IN  Cardinality(keys) >= 2 =>
                \E ij \in keys :
                    /\ \A other \in keys : ij[1] <= other[1]
                    /\ issue_id = Some(SubSeq(s, ij[1], ij[2]))

\* C7: an authenticated request whose payload has no pull_request key (a
\* pusher key or neither) is classified as non-pull-request, answered 400,
\* and a failure status is reported.
C7_NotPullRequest400 ==
    ( /\ Done
      /\ auth = Some(TRUE)
      /\ request.payload.json
      /\ "pull_request" \notin request.payload.keys )
    => /\ payload_type # Some("pull_request")
       /\ send_http_code = 400
       /\ Len(pushed) = 1 /\ pushed[1].state = "failure"

\* some substring of s matches [A-Z][A-Za-z]{1,10}-[0-9]+
HasKeyShapedSubstring(s) ==
    \E i \in 1..Len(s) : \E j \in i..Len(s) : IsKeyShaped(SubSeq(s, i, j))

\* an authenticated pull-request event whose branch name holds no
\* key-shaped substring
NoKeyRequest ==
    /\ auth = Some(TRUE)
    /\ \E b \in Branches : IsPullRequestOn(b) /\ ~HasKeyShapedSubstring(b)

KeyNotFoundRequest ==
    /\ auth = Some(TRUE)
    /\ \E b \in Branches : IsPullRequestOn(b)
    /\ issue_id # None
    /\ jira # "found"

\* the message of the 404 answer for branch b and key k
NotFoundText(b, k) ==
    "branch name " \o Str(b) \o " does not reference a JIRA issue. "
        \o "Issue Id (" \o Str(k) \o ") not found" \o " in JIRA."

\* C9 as stated: every tracker outcome other than "found" gives the same
\* 404 answer, whose message holds "Issue Id (K) not found", and a failure
\* status is pushed.
C9_TrackerFailure404_AsStated ==
    (Done /\ KeyNotFoundRequest) =>
        LET message == NotFoundText(branch_name[1], issue_id[1])
        IN  /\ send_http_code = 404
            /\ result = ResultMessage(message)
            /\ PushedExactly("failure", message)

\* C9 amended: every tracker outcome other than "found" makes is_jira_issue
\* return false after a single lookup, and the same failure status, whose
\* message holds "Issue Id (K) not found", is handed to the reporter; when
\* the push succeeds the response is 404 with that message, whatever the
\* tracker failure was, and when it fails the response is 500.
C9_TrackerFailure404_Amended ==
    (Done /\ KeyNotFoundRequest) =>
        LET message == NotFoundText(branch_name[1], issue_id[1])
        IN  /\ jira_calls = 1
            /\ push_calls = 1
            /\ github_commit_status.status = "failure"
            /\ github_commit_status.message = message
            /\ IsPullRequestOn(BranchLeadingKey) =>
                  message = "branch name ABC-999-fix does not reference a JIRA issue. Issue Id (ABC-999) not found in JIRA."
            /\ IF github_up
               THEN /\ send_http_code = 404
                    /\ result = ResultMessage(message)
                    /\ PushedExactly("failure", message)
               ELSE /\ send_http_code = 500
                    /\ pushed = <<>>

C9_Witness ==
    /\ Done
    /\ auth = Some(TRUE)
    /\ IsPullRequestOn(BranchLeadingKey)
    /\ jira = "network_failure"
    /\ send_http_code = 404
    /\ Len(pushed) = 1

\* C10: whenever the status push is attempted and fails, the response is
\* 500 with the reporter's error as message, whatever code had been reached;
\* a request that ended in 403 is never escalated to 500.
C10_PushFailure500 ==
    Done =>
        /\ (push_calls = 1 /\ pushed = <<>>) =>
              /\ send_http_code = 500
              /\ result = ResultMessage(
                     push_github_commit_status(github_commit_status, github_up)[1])
        /\ auth = Some(FALSE) => send_http_code = 403

C10_Witness ==
    /\ Done
    /\ ~github_up
    /\ issue_id = None /\ branch_name # None /\ request.payload.has_sha
    /\ request.payload.sha # None
    /\ push_calls = 1
    /\ send_http_code = 500

\* C11: when authentication, classification, branch and key extraction,
\* tracker verification and the status push all succeed, the response is
\* 200 "OK" and the pushed status has state success, the sha and repository
\* name of the payload's head, and a message that embeds the branch name and
\* the issue key.
C11_AllSucceed ==
    ( /\ Done
      /\ auth = Some(TRUE)
      /\ payload_type = Some("pull_request")
      /\ branch_name # None
      /\ issue_id # None
      /\ jira = "found"
      /\ push_calls = 1 /\ Len(pushed) = 1 )
    => /\ send_http_code = 200
       /\ result = ResultOK
       /\ pushed[1].state = "success"
       /\ Some(pushed[1].sha) = request.payload.sha
       /\ Some(pushed[1].repository) = request.payload.full_name
       /\ pushed[1].description =
             "branch name (" \o Str(request.payload.ref[1])
                 \o ") references a found Jira issue (" \o Str(issue_id[1]) \o ")"
       /\ IsPullRequestOn(BranchHyphenKey) =>
             pushed[1].description =
                 "branch name (feature-ABC-123-login) references a found Jira issue (ABC-123)"

C11_Witness ==
    /\ Done
    /\ config.github_webhook_secret # None
    /\ auth = Some(TRUE)
    /\ IsPullRequestOn(BranchLeadingKey)
    /\ jira = "found"
    /\ Len(pushed) = 1
    /\ send_http_code = 200

\* C12: an authenticated pull-request event whose head branch ref is missing
\* or null is answered 400 and a failure status is reported.
C12_NoBranchRef400 ==
    ( /\ Done
      /\ auth = Some(TRUE)
      /\ request.payload.json
      /\ "pull_request" \in request.payload.keys
      /\ (~request.payload.has_ref \/ request.payload.ref = None) )
    => /\ send_http_code = 400
       /\ Len(pushed) = 1 /\ pushed[1].state = "failure"

\* C14: whenever the Status Reporter is invoked, the outcome passed to it
\* is fully populated: its commit sha and repository name are non-null
\* values taken from the payload, on every path that reaches the reporter.
C14_ReporterInputPopulated ==
    push_calls >= 1 =>
        /\ github_commit_status.commit_sha # None
        /\ github_commit_status.repository_name # None
        /\ github_commit_status.commit_sha = request.payload.sha
        /\ github_commit_status.repository_name = request.payload.full_name

\* C15: the tracker lookup happens at most once and only after the signature
\* check succeeded, the payload was classified as pull_request and a key was
\* extracted; once the status push has happened no other step follows; a
\* request that fails the signature check makes no outbound call.
C15_PipelineOrder ==
    /\ jira_calls <= 1
    /\ jira_calls = 1 =>
          /\ auth = Some(TRUE)
          /\ payload_type = Some("pull_request")
          /\ branch_name # None
          /\ issue_id # None
    /\ push_calls <= 1
    /\ push_calls = 1 => Done
    /\ pc \in {"get_payload", "get_branch", "extract", "check_issue"} =>
          auth = Some(TRUE) /\ push_calls = 0
    /\ auth = Some(FALSE) => jira_calls = 0 /\ push_calls = 0

C15_Witness ==
    /\ Done
    /\ auth = Some(TRUE)
    /\ jira_calls = 1
    /\ push_calls = 1

\* C17: the state of a pushed commit status is success or failure, never
\* pending or error; it is success if and only if the tracker confirmed the
\* extracted key in this request, and until then the outcome's state is
\* failure.
C17_StatusState ==
    LET confirmed == jira_calls = 1 /\ issue_id # None /\ jira = "found"
    IN  /\ github_commit_status.status \in {"success", "failure"}
        /\ github_commit_status.status = "success" <=> confirmed
        /\ ~confirmed => github_commit_status.status = "failure"
        /\ \A i \in 1..Len(pushed) :
              /\ pushed[i].state \in {"success", "failure"}
              /\ pushed[i].state = "success" <=> confirmed

C17_Witness ==
    /\ Done
    /\ jira_calls = 1
    /\ jira = "found"
    /\ Len(pushed) = 1
    /\ pushed[1].state = "success"

\* C18: a response with code 200 is returned only if a success status was
\* pushed successfully in the same request, and a response with code 400 or
\* 404 only if a failure status was pushed successfully.
C18_CodeImpliesPushed ==
    Done =>
        /\ send_http_code = 200 =>
              Len(pushed) = 1 /\ pushed[1].state = "success"
        /\ send_http_code \in {400, 404} =>
              Len(pushed) = 1 /\ pushed[1].state = "failure"

C18_Witness ==
    /\ Done
    /\ send_http_code = 404
    /\ Len(pushed) = 1
    /\ pushed[1].state = "failure"

\* the failure the try block ended with, read from what the handler did
FailureKind ==
    IF auth = Some(FALSE) THEN "not_authorized"
    ELSE IF jira_calls = 1 THEN "key_not_found"
    ELSE IF branch_name # None /\ request.payload.has_sha /\ issue_id = None
         THEN "no_key"
    ELSE IF request.payload.json /\ "pull_request" \notin request.payload.keys
         THEN "wrong_payload_kind"
    ELSE "malformed_payload"

\* the messages of each failure kind, over the branch names and the keys
\* they hold
FailureTexts(kind) ==
    CASE kind = "wrong_payload_kind" ->
            {"this callback only manages PR webhook. Fix the webhook settings."}
      [] kind = "no_key" ->
            {"branch name " \o Str(b) \o " does not fit the JIRA branch name requirements" :
                b \in Branches}
      [] kind = "key_not_found" ->
            UNION {UNION {{"branch name " \o Str(b)
                              \o " does not reference a JIRA issue. Issue Id ("
                              \o Str(SubSeq(b, i, j)) \o ") not found in JIRA." :
                                j \in i..Len(b)} : i \in 1..Len(b)} : b \in Branches}
      [] OTHER -> {}

\* C19: on every failure path whose status push succeeds, the description
\* pushed equals the message of the response body, and the message handed
\* to the reporter is that of its failure kind (wrong payload kind, no key
\* in the branch name, key not found in the tracker) and of no other kind.
C19_FailureMessages ==
    (Done /\ push_calls = 1 /\ github_commit_status.status = "failure") =>
        /\ (Len(pushed) = 1 /\ send_http_code \in {400, 404}) =>
              /\ result = ResultMessage(pushed[1].description)
              /\ FailureKind \in {"no_key", "key_not_found"}
        /\ FailureKind \in {"wrong_payload_kind", "no_key", "key_not_found"} =>
              /\ github_commit_status.message \in FailureTexts(FailureKind)
              /\ \A other \in {"wrong_payload_kind", "no_key", "key_not_found"} \ {FailureKind} :
                    github_commit_status.message \notin FailureTexts(other)

C19_Witness ==
    /\ Done
    /\ FailureKind = "key_not_found"
    /\ Len(pushed) = 1
    /\ send_http_code = 404
    /\ result = ResultMessage(pushed[1].description)

\* the code is one of the five, and the body goes with it
C13_ResponseShape ==
    /\ send_http_code \in {200, 400, 403, 404, 500}
    /\ result = ResultOK <=> send_http_code = 200
    /\ send_http_code # 200 => DOMAIN result = {"message"}

\* C13: every request terminates with exactly one response: every failure
\* raised in the pipeline is caught, the response code is one of 200, 400,
\* 403, 404, 500, and the body is "OK" exactly when the code is 200 and
\* {"message": ...} otherwise; once returned, the response does not change.
C13_OneResponse ==
    /\ <>Done
    /\ [](Done => C13_ResponseShape)
    /\ [][Done => UNCHANGED <<result, send_http_code, pc>>]_vars

C13_Witness ==
    /\ Done
    /\ ~request.payload.json
    /\ send_http_code = 500
    /\ DOMAIN result = {"message"}

\* what one invocation answers and pushes when it runs alone
AloneOutcome(cfg, req, outcome, up) ==
    LET payload == req.payload
        secret == cfg.github_webhook_secret
        authorized ==
            secret = None \/ req.headers = Some(SignedHeader(secret[1], req.data))
        key == get_jira_issue_from_branch_name(payload.ref[1])
        before_push ==
            IF ~authorized
            THEN [code |-> 403, message |-> MsgNotAuthorized, state |-> "failure", head |-> FALSE]
            ELSE IF ~payload.json
            THEN [code |-> 400, message |-> "400 Bad Request: Failed to decode JSON object",
                  state |-> "failure", head |-> FALSE]
            ELSE IF "pull_request" \notin payload.keys
            THEN [code |-> 400, message |-> MsgNotPullRequest, state |-> "failure", head |-> FALSE]
            ELSE IF ~payload.has_ref
            THEN [code |-> 400, message |-> "'ref'", state |-> "failure", head |-> FALSE]
            ELSE IF payload.ref = None
            THEN [code |-> 400, message |-> MsgNoBranch, state |-> "failure", head |-> FALSE]
            ELSE IF ~payload.has_sha
            THEN [code |-> 400, message |-> "'sha'", state |-> "failure", head |-> FALSE]
            ELSE IF key = None
            THEN [code |-> 404, message |-> MsgNoKey(payload.ref[1]),
                  state |-> "failure", head |-> TRUE]
            ELSE IF outcome # "found"
            THEN [code |-> 404, message |-> MsgNotFound(payload.ref[1], key[1]),
                  state |-> "failure", head |-> TRUE]
            ELSE [code |-> 200, message |-> MsgSuccess(payload.ref[1], key[1]),
                  state |-> "success", head |-> TRUE]
        status ==
            [ commit_sha      |-> IF before_push.head THEN payload.sha ELSE None,
              repository_name |-> IF before_push.head THEN payload.full_name ELSE None,
              github_token    |-> cfg.github_token,
              message         |-> before_push.message,
              callback_url    |-> cfg.callback_url,
              status          |-> before_push.state ]
        body == IF before_push.code = 200 THEN ResultOK
                ELSE ResultMessage(before_push.message)
        error == push_github_commit_status(status, up)
    IN  IF before_push.code = 403
        THEN [code |-> 403, body |-> body, pushed |-> <<>>]
        ELSE IF error = None
        THEN [code |-> before_push.code, body |-> body, pushed |-> <<CreatedStatus(status)>>]
        ELSE [code |-> 500, body |-> ResultMessage(error[1]), pushed |-> <<>>]

\* C16: concurrent invocations are independent: in any interleaving of two
\* simultaneous requests, the response and the pushed commit status of each
\* are those it has when it runs alone.
C16_Independent ==
    /\ Done =>
          [code |-> send_http_code, body |-> result, pushed |-> pushed]
              = AloneOutcome(config, request, jira, github_up)
    /\ (peer # None /\ peer[1].pc = "done") =>
          [code |-> peer[1].send_http_code, body |-> peer[1].result,
           pushed |-> peer[1].pushed]
              = AloneOutcome(config, peer[1].request, peer[1].jira, peer[1].github_up)

\* both invocations have answered, the second one having started before the
\* first one ended
C16_Witness ==
    /\ Done
    /\ peer # None
    /\ peer[1].pc = "done"
    /\ active = 1
    /\ Len(pushed) = 1
    /\ Len(peer[1].pushed) = 1
    /\ request # peer[1].request

====
